---- MODULE Spec2Model ----
(***************************************************************************)
(* A model of libpysat's wavelength resolution, continuum correction and   *)
(* spectral containers (libpysat/utils/utils.py and                        *)
(* libpysat/spectral/spectra.py).                                          *)
(*                                                                         *)
(* Positions are 0-based as in Python: position p of a Python sequence s   *)
(* is s[p + 1] here.  Real numbers are exact rationals [n, d]; the floats  *)
(* of the program round, which none of the properties below depends on.    *)
(***************************************************************************)
EXTENDS Integers, Sequences, FiniteSets, TLC

(***************************************************************************)
(* Bounds of the model.                                                    *)
(***************************************************************************)
MaxLen == 3        \* longest wavelength axis
MaxTargets == 2    \* longest list of targets handed to getbandnumbers
MaxNodes == 3      \* longest node list handed to linear_correction

Wavelengths == 1..4          \* labels a wavelength axis is built from
Targets == 0..5              \* values that are looked up on an axis
Reflectances == {1, 2}       \* measured values

VARIABLES
    pc,           \* position of the running call
    fn,           \* the function that was called
    wavelengths,  \* the wavelength axis (wv_array, iterable, self.wavelengths)
    wave_values,  \* getbandnumbers: the targets; getnearest: <<value>>
    result,       \* what the call returned or raised
    spectrum,     \* linear_correction: the measured values, one per axis position
    nodes_given,  \* linear_correction: FALSE when the caller passed nodes=None
    nodes,        \* linear_correction: the node wavelengths in use
    wv_idx,       \* linear_correction: the nodes' resolved positions
    size,         \* linear_correction: length of the two output arrays
    corrected,    \* linear_correction: the corrected array
    continuum,    \* linear_correction: the continuum array
    start,        \* linear_correction: start of the next segment
    i,            \* linear_correction: index of the next node pair
    written,      \* linear_correction: the segments assigned so far, in order
    reflectance,  \* horgan_correction: the reflectance array
    params,       \* horgan_correction: the arguments a, b, c and window
    maxima,       \* horgan_correction: maxa, maxb, maxc
    itercounter,  \* horgan_correction: passes of the loop body completed
    iterating,    \* horgan_correction: the continuation flag
    printed,      \* horgan_correction: the lines printed so far
    continuum_corrected, \* horgan_correction: reflectance / continuum
    obj,          \* containers: the container under observation
    item,         \* containers: what the last __getitem__ gave
    keys,         \* containers: the key of the last __getitem__
    supplied,     \* containers: the tolerance the constructor was called with
    last_set,     \* containers: the tolerance of the last explicit set
    observed      \* containers: what the last read of the tolerance gave

resolveVars == <<wave_values>>
linearVars == <<spectrum, nodes_given, nodes, wv_idx, size, corrected, start, i, written>>
horganVars == <<reflectance, params, maxima, itercounter, iterating, printed,
                continuum_corrected>>
containerVars == <<obj, item, keys, supplied, last_set, observed>>

vars == <<pc, fn, wavelengths, result, continuum, resolveVars, linearVars, horganVars,
          containerVars>>

Abs(n) == IF n < 0 THEN -n ELSE n

RECURSIVE SeqsUpTo(_, _)
\* all sequences over S of length at most n
SeqsUpTo(S, n) ==
    IF n = 0 THEN {<<>>}
    ELSE LET shorter == SeqsUpTo(S, n - 1)
         IN  shorter \cup {Append(s, e) : s \in {t \in shorter : Len(t) = n - 1}, e \in S}

(***************************************************************************)
(* getbandnumbers and getnearest                                           *)
(***************************************************************************)

\* a mutation of BandKey: the distance without abs()
BandKeySigned(axis, pos, x) == axis[pos + 1] - x

\* key=lambda i: abs(wavelengths[i]-x)
BandKey(axis, pos, x) == Abs(axis[pos + 1] - x)

RECURSIVE PyMin(_, _, _, _)
\* min(range(len(axis)), key=...): the builtin keeps the first item and
\* replaces it only by an item whose key is strictly smaller
PyMin(axis, x, pos, best) ==
    IF pos >= Len(axis) THEN best
    ELSE PyMin(axis, x, pos + 1,
               IF BandKey(axis, pos, x) < BandKey(axis, best, x) THEN pos ELSE best)

\* getbandnumbers(wavelengths, wave_values) for a non-empty axis
getbandnumbers(axis, values) ==
    [k \in 1..Len(values) |-> PyMin(axis, values[k], 1, 0)]

\* the outcome of getbandnumbers: min() of an empty range raises ValueError
GetBandNumbersOutcome(axis, values) ==
    IF Len(axis) = 0 /\ Len(values) > 0
    THEN [type |-> "ValueError", items |-> <<>>]
    ELSE [type |-> "list", items |-> getbandnumbers(axis, values)]

\* getnearest(iterable, value): min(enumerate(iterable), key=...) is an item
\* of enumerate(), the pair (index, entry)
getnearest(iterable, value) ==
    IF Len(iterable) = 0
    THEN [type |-> "ValueError", items |-> <<>>]
    ELSE LET p == PyMin(iterable, value, 1, 0)
         IN  [type |-> "tuple", items |-> <<p, iterable[p + 1]>>]

NoResult == [type |-> "none", items |-> <<>>]

\* the state of linear_correction's variables while no such call runs
LinearIdle ==
    /\ spectrum = <<>> /\ nodes_given = FALSE /\ nodes = <<>> /\ wv_idx = <<>>
    /\ size = 0 /\ corrected = <<>> /\ continuum = <<>> /\ start = 0 /\ i = 0
    /\ written = <<>>

\* the state of horgan_correction's variables while no such call runs
HorganIdle ==
    /\ reflectance = <<>> /\ params = [a |-> 0, b |-> 0, c |-> 0, window |-> 0]
    /\ maxima = <<>> /\ itercounter = 0 /\ iterating = FALSE /\ printed = <<>>
    /\ continuum_corrected = <<>>

NoObject == [cls |-> "none", has_get |-> FALSE, has_tolerance |-> FALSE, tolerance |-> 0,
             shape |-> <<>>, waxis |-> 0, wavelengths |-> <<>>]
NoItem == [kind |-> "none", obj |-> NoObject, src |-> NoObject]
NoValue == [given |-> FALSE, val |-> 0]

\* the state of the containers' variables while there is no container
ContainersIdle ==
    /\ obj = NoObject /\ item = NoItem /\ keys = <<>>
    /\ supplied = NoValue /\ last_set = NoValue /\ observed = NoValue

InitResolve ==
    /\ LinearIdle /\ HorganIdle /\ ContainersIdle
    /\ pc = "call"
    /\ fn \in {"getbandnumbers", "getnearest"}
    /\ wavelengths \in SeqsUpTo(Wavelengths, MaxLen)
    /\ wave_values \in IF fn = "getbandnumbers"
                       THEN SeqsUpTo(Targets, MaxTargets)
                       ELSE {<<v>> : v \in Targets}
    /\ result = NoResult

CallGetBandNumbers ==
    /\ pc = "call" /\ fn = "getbandnumbers"
    /\ result' = GetBandNumbersOutcome(wavelengths, wave_values)
    /\ pc' = IF result'.type = "list" THEN "returned" ELSE "raised"
    /\ UNCHANGED <<fn, wavelengths, wave_values, continuum, linearVars, horganVars,
                   containerVars>>

CallGetNearest ==
    /\ pc = "call" /\ fn = "getnearest"
    /\ result' = getnearest(wavelengths, wave_values[1])
    /\ pc' = IF result'.type = "tuple" THEN "returned" ELSE "raised"
    /\ UNCHANGED <<fn, wavelengths, wave_values, continuum, linearVars, horganVars,
                   containerVars>>

NextResolve == CallGetBandNumbers \/ CallGetNearest

SpecResolve == InitResolve /\ [][NextResolve]_vars

C10_ReturnsIndex ==
    (pc = "returned" /\ fn = "getnearest") => result.type = "int"

(***************************************************************************)
(* Numbers of the arrays: a rational, nan, inf, or an entry of np.empty()  *)
(* that was never assigned (its value is whatever the memory held).        *)
(***************************************************************************)
RECURSIVE GCD(_, _)
GCD(a, b) == IF b = 0 THEN a ELSE GCD(b, a % b)

Num(n, d) ==
    LET g == GCD(Abs(n), Abs(d))
        sgn == IF d < 0 THEN -1 ELSE 1
    IN  [k |-> "num", n |-> sgn * (n \div g), d |-> sgn * (d \div g)]

NaN == [k |-> "nan", n |-> 0, d |-> 1]
Inf(sign) == [k |-> "inf", n |-> sign, d |-> 1]
Uninit == [k |-> "uninit", n |-> 0, d |-> 1]
Zero == Num(0, 1)

\* numpy's float division a / b of two rationals: x/0 is inf, 0/0 is nan
NpDivide(a, b) ==
    IF a.k # "num" \/ b.k # "num" THEN NaN
    ELSE IF b.n = 0 THEN (IF a.n = 0 THEN NaN ELSE Inf(IF a.n < 0 THEN -1 ELSE 1))
    ELSE Num(a.n * b.d, a.d * b.n)

(***************************************************************************)
(* linear_correction                                                       *)
(***************************************************************************)

\* the positions a Python slice [from:to] selects in a sequence of length len
SliceIdx(from, to, len) == {p \in 0..(len - 1) : from <= p /\ p < to}

\* the label w is in the spectrum's index
HasLabel(axis, w) == \E p \in 1..Len(axis) : axis[p] = w

\* spectrum.loc[w] for a label of a duplicate-free index
Loc(axis, values, w) == values[CHOOSE p \in 1..Len(axis) : axis[p] = w]

\* m * w + b with m = (y2-y1) / (wv2 - wv1) and b = y1 - (m * wv1); with
\* wv2 = wv1 numpy's m is nan (y2 = y1 there, both being read at one label)
LineAt(y1, y2, wv1, wv2, w) ==
    IF wv2 = wv1 THEN NaN
    ELSE Num((y2 - y1) * (w - wv1) + y1 * (wv2 - wv1), wv2 - wv1)

\* arr[from:to] = f, for the positions of the slice that arr has
AssignSlice(arr, from, to, f) ==
    [p \in 1..Len(arr) |->
        IF (p - 1) \in SliceIdx(from, to, Len(arr)) THEN f[p - 1] ELSE arr[p]]

\* numpy assigns a value of length src to a slice of length dst when the
\* lengths agree or the value has length 1 (it is broadcast)
Broadcastable(src, dst) == src = dst \/ src = 1

\* size = wv_idx[-1] - wv_idx[0]
SizeOf(idx) == idx[Len(idx)] - idx[1]

\* a mutation of NextStart: the segment start is not advanced
NextStartStuck(from, to) == from

\* finally: start = stop
NextStart(from, to) == to

\* nodes = [wv_array[0], wv_array[-1]]
DefaultNodes(axis) == <<axis[1], axis[Len(axis)]>>

\* lincorr of _SpectraDataFrame.continuum_correction:
\* nodes = [wavelengths[0], wavelengths[1]]
LincorrDefaultNodes(axis) == <<axis[1], axis[2]>>

Injective(s) == \A p, q \in 1..Len(s) : s[p] = s[q] => p = q

InitLinear ==
    /\ HorganIdle /\ ContainersIdle
    /\ pc = "call"
    /\ fn \in {"linear_correction", "lincorr"}
    /\ wavelengths \in {s \in SeqsUpTo(Wavelengths, MaxLen) : Injective(s)}
    /\ spectrum \in [1..Len(wavelengths) -> Reflectances]
    /\ nodes_given \in BOOLEAN
    /\ nodes \in IF nodes_given THEN SeqsUpTo(Wavelengths, MaxNodes) ELSE {<<>>}
    /\ wave_values = <<>>
    /\ result = NoResult
    /\ wv_idx = <<>> /\ size = 0 /\ corrected = <<>> /\ continuum = <<>>
    /\ start = 0 /\ i = 0 /\ written = <<>>

Raise(name) == [type |-> name, items |-> <<>>]

linearLocals == <<wv_idx, size, corrected, continuum, start, i, written>>
linearInputs == <<fn, wavelengths, wave_values, spectrum, nodes_given, horganVars,
                  containerVars>>

\* nodes is None and the axis is empty: wv_array[0] raises IndexError
LinearDefaultNodesFail ==
    /\ pc = "call" /\ fn = "linear_correction"
    /\ ~nodes_given /\ Len(wavelengths) = 0
    /\ pc' = "raised" /\ result' = Raise("IndexError")
    /\ UNCHANGED <<linearInputs, nodes, linearLocals>>

\* the nodes in use once the default is applied
NodesInUse == IF nodes_given THEN nodes ELSE DefaultNodes(wavelengths)

\* getbandnumbers raises: the axis is empty and there is a node to resolve
LinearResolveFail ==
    /\ pc = "call" /\ fn = "linear_correction"
    /\ nodes_given
    /\ GetBandNumbersOutcome(wavelengths, nodes).type = "ValueError"
    /\ pc' = "raised" /\ result' = Raise("ValueError")
    /\ UNCHANGED <<linearInputs, nodes, linearLocals>>

\* wv_idx is empty: wv_idx[-1] raises, the bare except returns [0,0]
LinearSentinel ==
    /\ pc = "call" /\ fn = "linear_correction"
    /\ nodes_given /\ Len(nodes) = 0
    /\ pc' = "returned" /\ result' = [type |-> "sentinel", items |-> <<0, 0>>]
    /\ UNCHANGED <<linearInputs, nodes, linearLocals>>

\* the nodes resolve and size is computed; np.empty raises on a negative size
LinearEnter ==
    /\ pc = "call" /\ fn = "linear_correction"
    /\ nodes_given \/ Len(wavelengths) > 0
    /\ Len(NodesInUse) > 0
    /\ GetBandNumbersOutcome(wavelengths, NodesInUse).type = "list"
    /\ nodes' = NodesInUse
    /\ wv_idx' = getbandnumbers(wavelengths, NodesInUse)
    /\ size' = SizeOf(wv_idx')
    /\ IF size' < 0
       THEN /\ pc' = "raised" /\ result' = Raise("ValueError")
            /\ UNCHANGED <<corrected, continuum>>
       ELSE /\ pc' = "loop" /\ result' = NoResult
            /\ corrected' = [p \in 1..size' |-> Uninit]
            /\ continuum' = [p \in 1..size' |-> Uninit]
    /\ start' = 0 /\ i' = 0 /\ written' = <<>>
    /\ UNCHANGED linearInputs

\* the node pair of the running iteration and its stop
PairLeft == nodes[i + 1]
PairRight == nodes[i + 2]
Stop == wv_idx[i + 2]

\* spectrum.loc[...] raises KeyError for a node that is no label of the index;
\* the finally clause runs and the error leaves the function
SegmentKeyError ==
    /\ pc = "loop" /\ i + 2 <= Len(nodes)
    /\ ~HasLabel(wavelengths, PairLeft) \/ ~HasLabel(wavelengths, PairRight)
    /\ start' = NextStart(start, Stop)
    /\ pc' = "raised" /\ result' = Raise("KeyError")
    /\ UNCHANGED <<linearInputs, nodes, wv_idx, size, corrected, continuum, i, written>>

\* wv2 - wv1 is zero and all operands are Python numbers (the caller's nodes
\* and an object-typed spectrum): ZeroDivisionError, the segment is zero-filled
SegmentZeroDivision ==
    /\ pc = "loop" /\ i + 2 <= Len(nodes)
    /\ HasLabel(wavelengths, PairLeft) /\ HasLabel(wavelengths, PairRight)
    /\ nodes_given /\ PairLeft = PairRight
    /\ corrected' = AssignSlice(corrected, start, Stop, [p \in 0..(size - 1) |-> Zero])
    /\ continuum' = AssignSlice(continuum, start, Stop, [p \in 0..(size - 1) |-> Zero])
    /\ written' = Append(written, [start |-> start, stop |-> Stop,
                                   wv1 |-> PairLeft, wv2 |-> PairRight])
    /\ start' = NextStart(start, Stop)
    /\ i' = i + 1
    /\ UNCHANGED <<pc, result, linearInputs, nodes, wv_idx, size>>

\* the line through the two nodes, evaluated over wv_array[start:stop]
SegmentLine ==
    LET y1 == Loc(wavelengths, spectrum, PairLeft)
        y2 == Loc(wavelengths, spectrum, PairRight)
    IN  [p \in SliceIdx(start, Stop, Len(wavelengths)) |->
            LineAt(y1, y2, PairLeft, PairRight, wavelengths[p + 1])]

\* the arithmetic is numpy's (float64 values or nodes): no exception; the
\* slice assignment raises ValueError when the shapes cannot be broadcast
SegmentFit ==
    /\ pc = "loop" /\ i + 2 <= Len(nodes)
    /\ HasLabel(wavelengths, PairLeft) /\ HasLabel(wavelengths, PairRight)
    /\ LET y == SegmentLine
           src == Cardinality(SliceIdx(start, Stop, Len(wavelengths)))
           dst == Cardinality(SliceIdx(start, Stop, size))
       IN  IF Broadcastable(src, dst)
           THEN /\ corrected' = AssignSlice(corrected, start, Stop,
                        [p \in DOMAIN y |-> NpDivide(Num(spectrum[p + 1], 1), y[p])])
                /\ continuum' = AssignSlice(continuum, start, Stop, y)
                /\ written' = Append(written, [start |-> start, stop |-> Stop,
                                               wv1 |-> PairLeft, wv2 |-> PairRight])
                /\ i' = i + 1
                /\ UNCHANGED <<pc, result>>
           ELSE /\ pc' = "raised" /\ result' = Raise("ValueError")
                /\ UNCHANGED <<corrected, continuum, written, i>>
    /\ start' = NextStart(start, Stop)
    /\ UNCHANGED <<linearInputs, nodes, wv_idx, size>>

\* return [corrected, continuum]
LinearReturn ==
    /\ pc = "loop" /\ i + 2 > Len(nodes)
    /\ pc' = "returned"
    /\ result' = [type |-> "list", items |-> <<corrected, continuum>>]
    /\ UNCHANGED <<linearInputs, nodes, linearLocals>>

\* lincorr: the default nodes of the per-row correction, handed on to
\* continuum_correction; wavelengths[1] raises IndexError on a shorter axis
DataFrameLincorr ==
    /\ pc = "call" /\ fn = "lincorr"
    /\ IF nodes_given
       THEN /\ pc' = "dispatched" /\ UNCHANGED <<nodes, result>>
       ELSE IF Len(wavelengths) < 2
       THEN /\ pc' = "raised" /\ result' = Raise("IndexError") /\ UNCHANGED nodes
       ELSE /\ pc' = "dispatched" /\ nodes' = LincorrDefaultNodes(wavelengths)
            /\ UNCHANGED result
    /\ UNCHANGED <<linearInputs, linearLocals>>

NextLinear ==
    \/ LinearDefaultNodesFail
    \/ LinearResolveFail
    \/ LinearSentinel
    \/ LinearEnter
    \/ SegmentKeyError
    \/ SegmentZeroDivision
    \/ SegmentFit
    \/ LinearReturn
    \/ DataFrameLincorr

SpecLinear == InitLinear /\ [][NextLinear]_vars

\* the positions of the k-th range assigned by linear_correction
Seg(k) == {p \in 0..(Len(wavelengths) - 1) : written[k].start <= p /\ p < written[k].stop}

LinearReturned ==
    fn = "linear_correction" /\ pc = "returned" /\ result.type = "list"

\* C2 (as claimed): for every node list of two or more wavelengths the
\* assigned [start, stop) ranges are pairwise non-overlapping, their union is
\* exactly [0, len(wavelengths)-1), each stop is the next start and the final
\* stop is the last node's resolved position.
C2_PartitionsWholeRange ==
    (LinearReturned /\ Len(nodes) >= 2) =>
        /\ \A a, b \in 1..Len(written) : a < b => Seg(a) \cap Seg(b) = {}
        /\ UNION {Seg(k) : k \in 1..Len(written)} = 0..(Len(wavelengths) - 2)
        /\ \A k \in 1..(Len(written) - 1) : written[k].stop = written[k + 1].start
        /\ written[Len(written)].stop = wv_idx[Len(wv_idx)]

\* C2 (amended): the [start, stop) slice bounds are chained, the first starting at 0,
\* each stop being the next start and the k-th stop the (k+1)-th node's
\* resolved position, so the final stop is the last node's resolved position;
\* they are pairwise non-overlapping with union [0, last node's position)
\* whenever the resolved positions of the nodes after the first are
\* non-decreasing, which is [0, len(wavelengths)-1) when moreover the last
\* node resolves to the last position.
C2_ChainedRanges ==
    (fn = "linear_correction" /\ pc \in {"loop", "returned"} /\ result.type # "sentinel") =>
        /\ \A k \in 1..Len(written) :
              /\ written[k].start = IF k = 1 THEN 0 ELSE written[k - 1].stop
              /\ written[k].stop = wv_idx[k + 1]
        /\ Len(written) = i
        /\ start = IF i = 0 THEN 0 ELSE written[i].stop
        /\ (pc = "returned" /\ Len(nodes) >= 2) =>
              /\ Len(written) = Len(nodes) - 1
              /\ written[Len(written)].stop = wv_idx[Len(wv_idx)]
              /\ (\A k \in 2..(Len(wv_idx) - 1) : wv_idx[k] <= wv_idx[k + 1]) =>
                    /\ \A a, b \in 1..Len(written) : a < b => Seg(a) \cap Seg(b) = {}
                    /\ UNION {Seg(k) : k \in 1..Len(written)}
                          = 0..(wv_idx[Len(wv_idx)] - 1)
                    /\ wv_idx[Len(wv_idx)] = Len(wavelengths) - 1 =>
                          UNION {Seg(k) : k \in 1..Len(written)}
                             = 0..(Len(wavelengths) - 2)

\* three nodes, two non-empty segments, the whole range [0, 2) covered
C2_Witness ==
    /\ LinearReturned
    /\ wavelengths = <<1, 2, 3>> /\ nodes = <<1, 2, 3>>
    /\ Len(written) = 2
    /\ Seg(1) = {0} /\ Seg(2) = {1}

\* C3: the corrected array and the continuum array have one entry per
\* position of the wavelength axis, the last node's position included.
C3_SpectrumShaped ==
    LinearReturned =>
        /\ Len(result.items[1]) = Len(wavelengths)
        /\ Len(result.items[2]) = Len(wavelengths)

\* C4: with no node list given, the nodes used are [first wavelength, last
\* wavelength], in linear_correction and in the per-row correction of
\* _SpectraDataFrame.continuum_correction alike.
C4_DefaultNodesSpan ==
    (~nodes_given /\ pc \in {"loop", "returned", "dispatched"}) =>
        nodes = <<wavelengths[1], wavelengths[Len(wavelengths)]>>

\* C5: a node pair with w2 = w1 lets no division error reach the caller, and
\* every corrected and continuum entry of its [start, stop) range is zero.
C5_ZeroWidthSegmentIsZero ==
    (fn = "linear_correction" /\ pc \in {"returned", "raised"}) =>
        /\ result.type # "ZeroDivisionError"
        /\ LinearReturned =>
              \A k \in 1..Len(written) :
                 written[k].wv1 = written[k].wv2 =>
                    \A p \in SliceIdx(written[k].start, written[k].stop, size) :
                       corrected[p + 1] = Zero /\ continuum[p + 1] = Zero

\* C6: a node list with fewer than two nodes makes linear_correction return
\* the sentinel pair [0, 0], neither raising nor returning arrays.
C6_SentinelBelowTwoNodes ==
    (/\ fn = "linear_correction" /\ pc \in {"returned", "raised"}
     /\ Len(wavelengths) > 0 /\ nodes_given /\ Len(nodes) < 2) =>
        pc = "returned" /\ result.type = "sentinel"

(***************************************************************************)
(* horgan_correction                                                       *)
(***************************************************************************)
Windows == {1, 2}            \* window half-widths

\* the reference wavelengths a, b, c, in increasing order
RefTriples == {t \in Wavelengths \X Wavelengths \X Wavelengths : t[1] <= t[2] /\ t[2] <= t[3]}

\* a mutation of InWindow: the window taken closed
InWindowClosed(w, ref, window) == w >= ref - window /\ w <= ref + window

\* (wavelength > ref - window) & (wavelength < ref + window)
InWindow(w, ref, window) == w > ref - window /\ w < ref + window

RECURSIVE Where(_, _, _, _)
\* np.where(...)[0]: the positions inside the window, in increasing order
Where(axis, ref, window, pos) ==
    IF pos >= Len(axis) THEN <<>>
    ELSE (IF InWindow(axis[pos + 1], ref, window) THEN <<pos>> ELSE <<>>)
         \o Where(axis, ref, window, pos + 1)

RECURSIVE ArgMax(_, _, _)
\* values.argmax(): the first position of the largest value
ArgMax(values, pos, best) ==
    IF pos >= Len(values) THEN best
    ELSE ArgMax(values, pos + 1, IF values[pos + 1] > values[best + 1] THEN pos ELSE best)

\* reflectance[window].argmax() + window[0]
WindowMax(values, win) ==
    ArgMax([k \in 1..Len(win) |-> values[win[k] + 1]], 1, 0) + win[1]

RAdd(u, v) == Num(u.n * v.d + v.n * u.d, u.d * v.d)
RMul(u, v) == Num(u.n * v.n, u.d * v.d)

\* the parabola through three points with distinct abscissae, at w
Parabola(x, y, w) ==
    LET term(j, m1, m2) ==
            RMul(Num(y[j], 1), Num((w - x[m1]) * (w - x[m2]), (x[j] - x[m1]) * (x[j] - x[m2])))
    IN  RAdd(term(1, 2, 3), RAdd(term(2, 1, 3), term(3, 1, 2)))

\* a value of a rank-deficient least-squares fit, which the model does not compute
Lstsq == [k |-> "lstsq", n |-> 0, d |-> 1]

\* np.polyval(np.polyfit(x, y, 2), wavelength)
PolyfitPolyval(x, y, axis) ==
    [p \in 1..Len(axis) |->
        IF x[1] # x[2] /\ x[1] # x[3] /\ x[2] # x[3]
        THEN Parabola(x, y, axis[p])
        ELSE Lstsq]

InitHorgan ==
    /\ LinearIdle /\ ContainersIdle
    /\ pc = "call" /\ fn = "horgan_correction"
    /\ wavelengths \in SeqsUpTo(Wavelengths, MaxLen)
    /\ reflectance \in [1..Len(wavelengths) -> Reflectances]
    /\ \E t \in RefTriples, w \in Windows :
          params = [a |-> t[1], b |-> t[2], c |-> t[3], window |-> w]
    /\ wave_values = <<>>
    /\ result = NoResult
    /\ maxima = <<>> /\ itercounter = 0 /\ iterating = FALSE /\ printed = <<>>
    /\ continuum_corrected = <<>>

lowerwindow == Where(wavelengths, params.a, params.window, 0)
middlewindow == Where(wavelengths, params.b, params.window, 0)
upperwindow == Where(wavelengths, params.c, params.window, 0)

horganFrame == <<fn, wavelengths, wave_values, reflectance, params, linearVars,
                 containerVars>>

\* argmax of an empty selection raises ValueError
HorganEmptyWindow ==
    /\ pc = "call" /\ fn = "horgan_correction"
    /\ lowerwindow = <<>> \/ middlewindow = <<>> \/ upperwindow = <<>>
    /\ pc' = "raised" /\ result' = Raise("ValueError")
    /\ UNCHANGED <<horganFrame, continuum, maxima, itercounter, iterating, printed,
                   continuum_corrected>>

\* maxa, maxb, maxc; itercounter = 0; iterating = True
HorganMaxima ==
    /\ pc = "call" /\ fn = "horgan_correction"
    /\ lowerwindow # <<>> /\ middlewindow # <<>> /\ upperwindow # <<>>
    /\ maxima' = <<WindowMax(reflectance, lowerwindow),
                   WindowMax(reflectance, middlewindow),
                   WindowMax(reflectance, upperwindow)>>
    /\ itercounter' = 0
    /\ iterating' = TRUE
    /\ pc' = "while"
    /\ UNCHANGED <<horganFrame, continuum, result, printed, continuum_corrected>>

\* a mutation of IteratingAfterPass: the loop goes on until the cap
IteratingUntilCap(counter) == counter < 9

\* iterating = False, whatever the pass computed
IteratingAfterPass(counter) == FALSE

\* the continuum and the corrected reflectance of the fit through the three
\* control points
HorganFit(points) ==
    LET x == [j \in 1..3 |-> wavelengths[points[j] + 1]]
        y == [j \in 1..3 |-> reflectance[points[j] + 1]]
        fitted == PolyfitPolyval(x, y, wavelengths)
    IN  [continuum |-> fitted,
         continuum_corrected |->
             [p \in 1..Len(wavelengths) |-> NpDivide(Num(reflectance[p], 1), fitted[p])]]

\* one pass of the loop body
HorganBody ==
    /\ pc = "while" /\ iterating
    /\ continuum' = HorganFit(maxima).continuum
    /\ continuum_corrected' = HorganFit(maxima).continuum_corrected
    /\ iterating' = IteratingAfterPass(itercounter)
    /\ IF itercounter = 9
       THEN /\ printed' = Append(printed, "Unable to converge")
            /\ pc' = "break"
            /\ UNCHANGED itercounter
       ELSE /\ itercounter' = itercounter + 1
            /\ pc' = "while"
            /\ UNCHANGED printed
    /\ UNCHANGED <<horganFrame, result, maxima>>

\* return continuum_corrected, continuum
HorganReturn ==
    /\ \/ pc = "while" /\ ~iterating
       \/ pc = "break"
    /\ pc' = "returned"
    /\ result' = [type |-> "tuple", items |-> <<continuum_corrected, continuum>>]
    /\ UNCHANGED <<horganFrame, continuum, maxima, itercounter, iterating, printed,
                   continuum_corrected>>

NextHorgan == HorganEmptyWindow \/ HorganMaxima \/ HorganBody \/ HorganReturn

SpecHorgan == InitHorgan /\ [][NextHorgan]_vars

\* some sample of the axis lies strictly between ref - window and ref + window
WindowHasSample(ref) ==
    \E p \in 1..Len(wavelengths) :
        /\ wavelengths[p] > ref - params.window
        /\ wavelengths[p] < ref + params.window

\* C7: when one of the three windows (strictly between ref - window and
\* ref + window, ref in a, b, c) holds no sample, horgan_correction raises an
\* error and gives no (corrected, continuum) result.
C7_EmptyWindowRaises ==
    (/\ fn = "horgan_correction"
     /\ ~(WindowHasSample(params.a) /\ WindowHasSample(params.b) /\ WindowHasSample(params.c))) =>
        /\ pc \in {"call", "raised"}
        /\ result.type \in {"none", "ValueError"}
        /\ continuum_corrected = <<>> /\ continuum = <<>>
        /\ ~ENABLED (HorganMaxima \/ HorganBody \/ HorganReturn)

\* the lower and upper windows hold samples, the middle one none (its only
\* candidates lie on the window's open ends), and the call has raised
C7_Witness ==
    /\ fn = "horgan_correction" /\ pc = "raised" /\ result.type = "ValueError"
    /\ wavelengths = <<1, 3>>
    /\ params = [a |-> 1, b |-> 2, c |-> 3, window |-> 1]

\* the positions whose wavelength lies strictly inside (ref - window, ref + window)
WindowPositions(ref) ==
    {q \in 0..(Len(wavelengths) - 1) :
        /\ wavelengths[q + 1] > ref - params.window
        /\ wavelengths[q + 1] < ref + params.window}

\* C11: for each reference wavelength ref in (a, b, c), on sorted and unsorted
\* wavelength arrays alike, the control point used is a position whose
\* wavelength lies strictly inside (ref - window, ref + window) and whose
\* reflectance is the largest of the positions inside that window.
C11_ControlPointIsWindowMax ==
    (fn = "horgan_correction" /\ pc \in {"while", "break", "returned"}) =>
        \A j \in 1..3 :
            LET ref == <<params.a, params.b, params.c>>[j]
            IN  /\ maxima[j] \in WindowPositions(ref)
                /\ \A q \in WindowPositions(ref) :
                      reflectance[q + 1] <= reflectance[maxima[j] + 1]

\* C12: when the three window searches succeed the loop body runs exactly
\* once: after a pass the flag is off and stays off, the counter stops at 1,
\* far from the cap of 10 passes, 'Unable to converge' is never printed, and
\* the pair returned is the corrected spectrum and the continuum of that fit.
C12_SinglePass ==
    (fn = "horgan_correction" /\ pc \in {"while", "break", "returned"}) =>
        /\ itercounter \in {0, 1}
        /\ iterating <=> (pc = "while" /\ itercounter = 0)
        /\ pc # "break"
        /\ printed = <<>>
        /\ pc = "returned" =>
              /\ itercounter = 1
              /\ result.type = "tuple"
              /\ result.items = <<HorganFit(maxima).continuum_corrected,
                                  HorganFit(maxima).continuum>>

\* three distinct control points on a sorted axis, one pass, a flat continuum
C12_Witness ==
    /\ fn = "horgan_correction" /\ pc = "returned"
    /\ wavelengths = <<1, 2, 3>> /\ reflectance = <<2, 1, 2>>
    /\ params = [a |-> 1, b |-> 2, c |-> 3, window |-> 1]
    /\ maxima = <<0, 1, 2>>
    /\ itercounter = 1 /\ ~iterating /\ printed = <<>>
    /\ result.items[2][2] = Num(1, 1)
    /\ result.items[1][2] = Num(1, 1)

(***************************************************************************)
(* Spectrum, _SpectraDataFrame and _SpectraArray.  Tolerances are counted  *)
(* in tenths: 5 is the program's .5.                                       *)
(***************************************************************************)
MaxDim == 2                  \* largest size of an axis of a container

Ranks == {1, 2}              \* numbers of axes of a _SpectraArray
Tolerances == {0, 10}        \* tolerances a caller supplies or sets

SpectrumDefaultTolerance == 5     \* Spectrum.__init__(..., tolerance=.5)
DataFrameDefaultTolerance == 0    \* _SpectraDataFrame.__init__(..., tolerance=0)
ArrayDefaultTolerance == 5        \* _SpectraArray.__new__(..., tolerance=.5)
FallbackTolerance == 5            \* the tolerance getter's self._get._tolerance = .5

\* the tolerance= default of the class's constructor
DefaultTolerance(cls) ==
    CASE cls = "Spectrum" -> SpectrumDefaultTolerance
      [] cls = "_SpectraDataFrame" -> DataFrameDefaultTolerance
      [] cls = "_SpectraArray" -> ArrayDefaultTolerance

\* the tolerance argument as the constructor binds it
ConstructorTolerance(cls, given) == IF given.given THEN given.val ELSE DefaultTolerance(cls)

\* _ArrayLocIndexer(obj=obj, waxis=waxis, tolerance=tolerance) keeps the
\* tolerance it is given, readable as _tolerance and as tolerance
ArrayIndexerTolerance(tol) == tol

\* self._get._tolerance = tolerance in Spectrum and _SpectraDataFrame; the
\* indexer's own copy in _SpectraArray
StoredTolerance(cls, given) ==
    IF cls = "_SpectraArray" THEN ArrayIndexerTolerance(ConstructorTolerance(cls, given))
    ELSE ConstructorTolerance(cls, given)

\* the indexer's waxis: the axis it is given, the first axis when it is given none
IndexerWaxis(given) == IF given.given THEN given.val ELSE 0

Shapes == UNION {[1..r -> 1..MaxDim] : r \in Ranks}

\* a freshly constructed container
Construct(cls, shape, waxis, tol) ==
    [cls |-> cls, has_get |-> TRUE, has_tolerance |-> TRUE,
     tolerance |-> StoredTolerance(cls, tol),
     shape |-> shape, waxis |-> IndexerWaxis(waxis),
     wavelengths |-> [p \in 1..shape[IndexerWaxis(waxis) + 1] |-> p]]

InitContainers ==
    /\ LinearIdle /\ HorganIdle
    /\ pc = "live" /\ fn = "container"
    /\ wavelengths = <<>> /\ wave_values = <<>> /\ result = NoResult
    /\ supplied \in {NoValue} \cup {[given |-> TRUE, val |-> t] : t \in Tolerances}
    /\ \E cls \in {"Spectrum", "_SpectraDataFrame", "_SpectraArray"}, shape \in Shapes :
          \E waxis \in {NoValue} \cup {[given |-> TRUE, val |-> a] : a \in 0..(Len(shape) - 1)} :
             /\ cls # "_SpectraArray" => Len(shape) = 1 /\ waxis = NoValue
             /\ obj = Construct(cls, shape, waxis, supplied)
    /\ item = NoItem /\ keys = [tuple |-> FALSE, comps |-> <<>>]
    /\ last_set = NoValue /\ observed = NoValue

containerFrame == <<pc, fn, wavelengths, wave_values, continuum, linearVars, horganVars>>

\* the tolerance property: self._get._tolerance, set to .5 first when the
\* indexer has none; a view without _get raises AttributeError
ReadTolerance ==
    /\ pc = "live"
    /\ IF ~obj.has_get
       THEN /\ result' = Raise("AttributeError")
            /\ UNCHANGED <<obj, observed>>
       ELSE /\ obj' = IF obj.has_tolerance THEN obj
                      ELSE [obj EXCEPT !.has_tolerance = TRUE, !.tolerance = FallbackTolerance]
            /\ observed' = [given |-> TRUE, val |-> obj'.tolerance]
            /\ result' = NoResult
    /\ UNCHANGED <<containerFrame, item, keys, supplied, last_set>>

\* the tolerance setter: self._get._tolerance = val
SetTolerance ==
    /\ pc = "live"
    /\ \E val \in Tolerances :
          IF ~obj.has_get
          THEN /\ result' = Raise("AttributeError")
               /\ UNCHANGED <<obj, observed, last_set>>
          ELSE /\ obj' = [obj EXCEPT !.has_tolerance = TRUE, !.tolerance = val]
               /\ last_set' = [given |-> TRUE, val |-> val]
               /\ observed' = NoValue
               /\ result' = NoResult
    /\ UNCHANGED <<containerFrame, item, keys, supplied>>

\* the components of a key: a position, or a non-empty slice [lo:hi]
KeyComps ==
    {[t |-> "int", lo |-> k, hi |-> k] : k \in 0..(MaxDim - 1)}
    \cup {[t |-> "slice", lo |-> l, hi |-> h] : l \in 0..(MaxDim - 1), h \in 1..MaxDim}

\* a key: one component, or a tuple of components
Keys ==
    {[tuple |-> FALSE, comps |-> <<k>>] : k \in KeyComps}
    \cup {[tuple |-> TRUE, comps |-> c] : c \in SeqsUpTo(KeyComps, 2) \ {<<>>}}

\* numpy rejects the key: too many indices, or a position out of range
NumpyIndexError(shape, comps) ==
    \/ Len(comps) > Len(shape)
    \/ \E j \in 1..Len(comps) : comps[j].t = "int" /\ comps[j].lo >= shape[j]

RECURSIVE NumpyShape(_, _, _)
\* the shape of ndarray.__getitem__'s result: a position drops its axis, a
\* slice keeps the positions it selects, axes without a component are kept
NumpyShape(shape, comps, j) ==
    IF j > Len(shape) THEN <<>>
    ELSE (IF j > Len(comps) THEN <<shape[j]>>
          ELSE IF comps[j].t = "int" THEN <<>>
          ELSE <<Cardinality(SliceIdx(comps[j].lo, comps[j].hi, shape[j]))>>)
         \o NumpyShape(shape, comps, j + 1)

RECURSIVE SubSeq0(_, _, _, _)
\* index[lo:hi] of a pandas index
SubSeq0(s, lo, hi, pos) ==
    IF pos >= Len(s) THEN <<>>
    ELSE (IF lo <= pos /\ pos < hi THEN <<s[pos + 1]>> ELSE <<>>) \o SubSeq0(s, lo, hi, pos + 1)

\* super().__getitem__(keys) of a _SpectraArray: a view of the class that
\* carries none of the attributes __new__ sets, or a numpy scalar
BareGetItem(src, key) ==
    IF NumpyIndexError(src.shape, key.comps)
    THEN [kind |-> "IndexError", obj |-> NoObject, src |-> src]
    ELSE IF Len(key.comps) = Len(src.shape) /\ \A j \in 1..Len(key.comps) : key.comps[j].t = "int"
    THEN [kind |-> "scalar", obj |-> NoObject, src |-> src]
    ELSE [kind |-> "array", src |-> src,
          obj |-> [NoObject EXCEPT !.cls = "_SpectraArray",
                                   !.shape = NumpyShape(src.shape, key.comps, 1)]]

\* _SpectraArray(newarr, wavelengths, self._get.waxis, self._get.tolerance)
WrapGetItem(src, key, axis) ==
    [kind |-> "array", src |-> src,
     obj |-> [cls |-> "_SpectraArray", has_get |-> TRUE, has_tolerance |-> TRUE,
              tolerance |-> src.tolerance, shape |-> NumpyShape(src.shape, key.comps, 1),
              waxis |-> src.waxis, wavelengths |-> axis]]

\* if self._get.waxis <= len(keys)
WaxisInKey(waxis, n) == waxis <= n

\* _SpectraArray.__getitem__ for a key with __iter__
GetItemTuple(src, key) ==
    LET n == Len(key.comps)
        comp == key.comps[src.waxis + 1]
    IN  IF ~WaxisInKey(src.waxis, n)
        THEN (IF NumpyIndexError(src.shape, key.comps) THEN BareGetItem(src, key)
              ELSE WrapGetItem(src, key, src.wavelengths))
        ELSE IF src.waxis >= n
        \* keys[self._get.waxis] raises IndexError
        THEN BareGetItem(src, key)
        ELSE IF comp.t = "int"
        \* self.wavelengths[k] is a scalar (or raises), of which
        \* pd.Float64Index makes no index: TypeError
        THEN BareGetItem(src, key)
        ELSE IF NumpyIndexError(src.shape, key.comps) THEN BareGetItem(src, key)
        ELSE WrapGetItem(src, key, SubSeq0(src.wavelengths, comp.lo, comp.hi, 0))

\* _SpectraArray.__getitem__ for a key without __iter__
GetItemSingle(src, key) ==
    LET comp == key.comps[1]
    IN  IF src.waxis = 0
        THEN IF comp.t = "int" /\ comp.lo >= Len(src.wavelengths)
             THEN BareGetItem(src, key)
             ELSE IF NumpyIndexError(src.shape, key.comps) THEN BareGetItem(src, key)
             ELSE IF comp.t = "slice"
             THEN WrapGetItem(src, key, SubSeq0(src.wavelengths, comp.lo, comp.hi, 0))
             ELSE WrapGetItem(src, key, <<src.wavelengths[comp.lo + 1]>>)
        ELSE IF NumpyIndexError(src.shape, key.comps) THEN BareGetItem(src, key)
             ELSE WrapGetItem(src, key, src.wavelengths)

\* _SpectraArray.__getitem__: any exception of the try block (a view has no
\* _get: AttributeError) falls back to super().__getitem__(keys)
ArrayGetItem(src, key) ==
    IF ~src.has_get THEN BareGetItem(src, key)
    ELSE IF key.tuple THEN GetItemTuple(src, key)
    ELSE GetItemSingle(src, key)

\* arr[keys] on a _SpectraArray
GetItemArray ==
    /\ pc = "live" /\ obj.cls = "_SpectraArray"
    /\ \E key \in Keys :
          /\ keys' = key
          /\ item' = ArrayGetItem(obj, key)
          /\ result' = IF item'.kind = "IndexError" THEN Raise("IndexError") ELSE NoResult
    /\ UNCHANGED <<containerFrame, obj, supplied, last_set, observed>>

\* indexing a Spectrum or a _SpectraDataFrame goes through self.get and
\* assigns nothing on the container
GetItemFrame ==
    /\ pc = "live" /\ obj.cls \in {"Spectrum", "_SpectraDataFrame"}
    /\ \E key \in {k \in Keys : ~k.tuple} :
          /\ keys' = key
          /\ item' = [kind |-> "delegated", obj |-> NoObject, src |-> obj]
    /\ result' = NoResult
    /\ UNCHANGED <<containerFrame, obj, supplied, last_set, observed>>

\* arr = arr[keys]: the program goes on with the array it was given, whose
\* constructor was handed the source's tolerance
Rebind ==
    /\ pc = "live" /\ item.kind = "array"
    /\ obj' = item.obj
    /\ supplied' = IF item.obj.has_get
                   THEN [given |-> TRUE, val |-> item.obj.tolerance] ELSE NoValue
    /\ last_set' = NoValue /\ observed' = NoValue
    /\ item' = NoItem
    /\ result' = NoResult
    /\ UNCHANGED <<containerFrame, keys>>

NextContainers ==
    ReadTolerance \/ SetTolerance \/ GetItemArray \/ GetItemFrame \/ Rebind

SpecContainers == InitContainers /\ [][NextContainers]_vars

\* C8: the tolerance read from a container is the value of the most recent
\* explicit set, or else the construction value, which is 0.5 when the caller
\* supplied none; reads and indexing do not change it.
C8_ToleranceIsLastSetOrDefault ==
    (fn = "container" /\ observed.given) =>
        observed.val = IF last_set.given THEN last_set.val
                       ELSE IF supplied.given THEN supplied.val
                       ELSE 5

\* the component of the key that selects along the source's wavelength axis
AxisSelection(src, key) ==
    IF src.waxis + 1 <= Len(key.comps) THEN key.comps[src.waxis + 1]
    ELSE [t |-> "slice", lo |-> 0, hi |-> Len(src.wavelengths)]

\* the source's wavelengths at the selected positions, a single position
\* giving a length-1 axis
SelectedAxis(src, key) ==
    LET sel == AxisSelection(src, key)
    IN  IF sel.t = "int" THEN <<src.wavelengths[sel.lo + 1]>>
        ELSE SubSeq0(src.wavelengths, sel.lo, sel.hi, 0)

\* C9: when __getitem__ of a _SpectraArray gives an array, it is a
\* _SpectraArray carrying the source's wavelengths at the positions selected
\* along the wavelength axis (one position: a length-1 axis); so every array
\* reached by slicing keeps its axis metadata, of the length of the data axis
\* it annotates.
C9_SlicedAxisKept ==
    /\ (fn = "container" /\ item.kind = "array" /\ item.src.has_get) =>
          /\ item.obj.has_get
          /\ item.obj.wavelengths = SelectedAxis(item.src, keys)
    /\ (fn = "container" /\ obj.cls = "_SpectraArray") =>
          /\ obj.has_get
          /\ obj.waxis < Len(obj.shape) => Len(obj.wavelengths) = obj.shape[obj.waxis + 1]

====
